---------------------------- MODULE Spec2Model ----------------------------
(***************************************************************************)
(* A model of validation_hours.py: the reconciliation of the invoice       *)
(* export ("factuur") with the timesheet export ("kloklijst").             *)
(*                                                                         *)
(* Python strings are modelled as tuples of one-character strings, so that *)
(* lower(), replace(), strip(), split(), sorted() and float() are computed *)
(* character by character.  Hours are Python floats in the source; the     *)
(* model keeps them as integers counting thousandths of an hour, with      *)
(* exact addition and subtraction, and round(x, 2) as rounding to the      *)
(* nearest multiple of ten thousandths (ties to the even hundredth).       *)
(***************************************************************************)
EXTENDS Integers, Sequences, FiniteSets, TLC

(***************************************************************************)
(* Characters and strings                                                  *)
(***************************************************************************)

\* The printable ASCII characters in code-point order (without the backquote,
\* which a string of this language cannot hold).
Ascii == " !\"#$%&'()*+,-./0123456789:;<=>?@ABCDEFGHIJKLMNOPQRSTUVWXYZ[\\]^_abcdefghijklmnopqrstuvwxyz{|}~"

\* A Python str as a tuple of one-character strings.
Str(s) == [i \in 1..Len(s) |-> SubSeq(s, i, i)]

AsciiChars == {SubSeq(Ascii, i, i) : i \in 1..Len(Ascii)}

\* The rank of a character in code-point order; the tab sorts before them all.
Ord == [c \in AsciiChars \cup {"\t"} |->
          IF c = "\t" THEN 0 ELSE CHOOSE i \in 1..Len(Ascii) : SubSeq(Ascii, i, i) = c]

Digits == {"0", "1", "2", "3", "4", "5", "6", "7", "8", "9"}

DigitVal == [c \in Digits |-> Ord[c] - Ord["0"]]

\* str.isspace() on the modelled characters.
IsSpace(c) == c \in {" ", "\t"}

\* str.lower(): an upper-case letter becomes its lower-case letter, everything
\* else stays.
LowerChar(c) ==
    IF Ord[c] >= Ord["A"] /\ Ord[c] <= Ord["Z"]
      THEN SubSeq(Ascii, Ord[c] + (Ord["a"] - Ord["A"]), Ord[c] + (Ord["a"] - Ord["A"]))
      ELSE c

Lower(s) == [i \in 1..Len(s) |-> LowerChar(s[i])]

\* str.replace(a, b) for one-character a and b.
Replace(s, a, b) == [i \in 1..Len(s) |-> IF s[i] = a THEN b ELSE s[i]]

RECURSIVE LStrip(_)
LStrip(s) == IF s # <<>> /\ IsSpace(Head(s)) THEN LStrip(Tail(s)) ELSE s

RECURSIVE RStrip(_)
RStrip(s) ==
    IF s # <<>> /\ IsSpace(s[Len(s)]) THEN RStrip(SubSeq(s, 1, Len(s) - 1)) ELSE s

\* str.strip()
Strip(s) == RStrip(LStrip(s))

\* str.split(): the maximal runs of non-whitespace characters, in order.
\* SplitFrom scans s with the word under construction in cur.
RECURSIVE SplitFrom(_, _)
SplitFrom(s, cur) ==
    IF s = <<>>
      THEN IF cur = <<>> THEN <<>> ELSE <<cur>>
      ELSE IF IsSpace(Head(s))
             THEN (IF cur = <<>> THEN <<>> ELSE <<cur>>) \o SplitFrom(Tail(s), <<>>)
             ELSE SplitFrom(Tail(s), Append(cur, Head(s)))

Split(s) == SplitFrom(s, <<>>)

\* str.split(" ")[0]: the characters before the first space.
RECURSIVE FirstField(_)
FirstField(s) ==
    IF s = <<>> \/ Head(s) = " " THEN <<>> ELSE <<Head(s)>> \o FirstField(Tail(s))

\* Python's str comparison a < b: lexicographic by code point.
RECURSIVE StrLess(_, _)
StrLess(a, b) ==
    IF b = <<>> THEN FALSE
    ELSE IF a = <<>> THEN TRUE
    ELSE IF Head(a) # Head(b) THEN Ord[Head(a)] < Ord[Head(b)]
    ELSE StrLess(Tail(a), Tail(b))

\* sorted(list): insertion into an ascending list, then the list sorted.
RECURSIVE InsertSorted(_, _)
InsertSorted(w, ws) ==
    IF ws = <<>> THEN <<w>>
    ELSE IF StrLess(w, Head(ws)) THEN <<w>> \o ws
    ELSE <<Head(ws)>> \o InsertSorted(w, Tail(ws))

RECURSIVE SortedList(_)
SortedList(ws) ==
    IF ws = <<>> THEN <<>> ELSE InsertSorted(Head(ws), SortedList(Tail(ws)))

\* sorted(set): the elements of a set of strings in ascending order.
RECURSIVE SortedSet(_)
SortedSet(S) ==
    IF S = {} THEN <<>>
    ELSE LET m == CHOOSE x \in S : \A y \in S : x = y \/ StrLess(x, y)
         IN  <<m>> \o SortedSet(S \ {m})

\* " ".join(words)
RECURSIVE Join(_)
Join(ws) ==
    IF ws = <<>> THEN <<>>
    ELSE IF Len(ws) = 1 THEN Head(ws)
    ELSE Head(ws) \o <<" ">> \o Join(Tail(ws))

(***************************************************************************)
(* normalize_name and normalize_date                                       *)
(***************************************************************************)

\* A normalizer that forgets to sort the words.
normalize_name_unsorted(name) == Join(Split(Replace(Lower(name), "-", " ")))

\* " ".join(sorted(name.lower().replace("-", " ").split()))
normalize_name(name) == Join(SortedList(Split(Replace(Lower(name), "-", " "))))

\* date_str.strip().split(" ")[0]
normalize_date(date_str) == FirstField(Strip(date_str))

(***************************************************************************)
(* Hours: float(), addition and round(x, 2)                                *)
(***************************************************************************)

\* Python's None: a value that no string (a tuple of single characters) equals.
None == <<"None">>

\* The value of a run of decimal digits.
RECURSIVE DigitsValue(_)
DigitsValue(ds) ==
    IF ds = <<>> THEN 0
    ELSE 10 * DigitsValue(SubSeq(ds, 1, Len(ds) - 1)) + DigitVal[ds[Len(ds)]]

\* The thousandths a fraction's digits stand for (its first three digits; the
\* cells of the model hold no more).
FractionValue(ds) ==
    LET d(i) == IF i <= Len(ds) THEN DigitVal[ds[i]] ELSE 0
    IN  100 * d(1) + 10 * d(2) + d(3)

\* float(s) for a stripped s: an optional sign, then digits with at most one
\* decimal point and at least one digit.  [ok |-> FALSE] stands for ValueError.
\* (Exponents, "inf", "nan" and "_" are not modelled: the cells of the model hold
\* none of the characters e, E, i, n, f, a, _.)
ParseFloat(s) ==
    LET signed == s # <<>> /\ Head(s) \in {"+", "-"}
        body   == IF signed THEN Tail(s) ELSE s
        dots   == {i \in 1..Len(body) : body[i] = "."}
        dot    == IF dots = {} THEN Len(body) + 1 ELSE CHOOSE i \in dots : TRUE
        whole  == SubSeq(body, 1, dot - 1)
        frac   == SubSeq(body, dot + 1, Len(body))
        wellformed ==
            /\ Cardinality(dots) <= 1
            /\ \A i \in 1..Len(body) : body[i] \in Digits \cup {"."}
            /\ Len(whole) + Len(frac) >= 1
        magnitude == 1000 * DigitsValue(whole) + FractionValue(frac)
    IN  IF wellformed
          THEN [ok |-> TRUE,
                val |-> IF signed /\ Head(s) = "-" THEN 0 - magnitude ELSE magnitude]
          ELSE [ok |-> FALSE, val |-> 0]

\* float(x_str.replace(",", "."))
ParseHours(str) == ParseFloat(Replace(str, ",", "."))

\* round(x, 2): the nearest hundredth, a tie going to the even hundredth.
round2(x) ==
    LET q == x \div 10
        r == x % 10
    IN  IF r < 5 THEN 10 * q
        ELSE IF r > 5 THEN 10 * (q + 1)
        ELSE IF q % 2 = 0 THEN 10 * q ELSE 10 * (q + 1)

(***************************************************************************)
(* Dictionaries                                                            *)
(***************************************************************************)

EmptyDict == <<>>

\* d[k] = v
DictPut(d, k, v) == [x \in DOMAIN d \cup {k} |-> IF x = k THEN v ELSE d[x]]

\* d.get(k, default)
DictGet(d, k, default) == IF k \in DOMAIN d THEN d[k] ELSE default

\* The accumulation with each value rounded as it is added.
AddWeekly_rounding(totals, name, cat, val) ==
    LET inner == DictGet(totals, name, EmptyDict)
    IN  DictPut(totals, name, DictPut(inner, cat, DictGet(inner, cat, 0) + round2(val)))

\* totals[name][cat] += val on a defaultdict of defaultdict(float)
AddWeekly(totals, name, cat, val) ==
    LET inner == DictGet(totals, name, EmptyDict)
    IN  DictPut(totals, name, DictPut(inner, cat, DictGet(inner, cat, 0) + val))

\* totals[name][date][cat] += val on the three-level defaultdict
AddDaily(totals, name, date, cat, val) ==
    LET inner == DictGet(totals, name, EmptyDict)
    IN  DictPut(totals, name, AddWeekly(inner, date, cat, val))

(***************************************************************************)
(* The loaders.  A file is the sequence of its rows as csv.DictReader      *)
(* yields them: each row a dictionary from column name to cell.            *)
(***************************************************************************)

KLOKLIJST_HOUR_COLS ==
    << "Norm uren Dag", "T133 Dag", "T135 Dag", "T200 Dag",
       "OW140 Week", "OW180 Dag", "OW200 Dag" >>

\* row.get(col, "").strip()
Cell(row, col) == Strip(DictGet(row, col, <<>>))

\* The iteration with the timesheet loaders' "if val != 0" applied to the invoice.
factuur_row_skips_zero(totals, row) ==
    LET naam     == Cell(row, "Naam")
        code     == Cell(row, "Code toeslag")
        uren_str == Cell(row, "Totaal uren")
        uren     == ParseHours(uren_str)
    IN  IF naam = <<>> \/ code = <<>> \/ uren_str = <<>> THEN totals
        ELSE IF ~uren.ok THEN totals
        ELSE IF uren.val = 0 THEN totals
        ELSE AddWeekly(totals, normalize_name(naam), code, uren.val)

\* One iteration of load_factuur_hours' loop.
factuur_row(totals, row) ==
    LET naam     == Cell(row, "Naam")
        code     == Cell(row, "Code toeslag")
        uren_str == Cell(row, "Totaal uren")
        uren     == ParseHours(uren_str)
    IN  IF naam = <<>> \/ code = <<>> \/ uren_str = <<>> THEN totals
        ELSE IF ~uren.ok THEN totals
        ELSE AddWeekly(totals, normalize_name(naam), code, uren.val)

RECURSIVE factuur_rows(_, _)
factuur_rows(totals, rows) ==
    IF rows = <<>> THEN totals
    ELSE factuur_rows(factuur_row(totals, Head(rows)), Tail(rows))

load_factuur_hours(file) == factuur_rows(EmptyDict, file)

\* One iteration of load_factuur_hours_by_date's loop.
factuur_row_by_date(totals, row) ==
    LET naam     == Cell(row, "Naam")
        code     == Cell(row, "Code toeslag")
        datum    == Cell(row, "Datum")
        uren_str == Cell(row, "Totaal uren")
        uren     == ParseHours(uren_str)
    IN  IF naam = <<>> \/ code = <<>> \/ datum = <<>> \/ uren_str = <<>> THEN totals
        ELSE IF ~uren.ok THEN totals
        ELSE AddDaily(totals, normalize_name(naam), normalize_date(datum), code, uren.val)

RECURSIVE factuur_rows_by_date(_, _)
factuur_rows_by_date(totals, rows) ==
    IF rows = <<>> THEN totals
    ELSE factuur_rows_by_date(factuur_row_by_date(totals, Head(rows)), Tail(rows))

load_factuur_hours_by_date(file) == factuur_rows_by_date(EmptyDict, file)

\* The inner loop without its test val != 0: a zero is stored like any value.
RECURSIVE kloklijst_cols_store_zero(_, _, _, _)
kloklijst_cols_store_zero(totals, norm, row, i) ==
    IF i > Len(KLOKLIJST_HOUR_COLS) THEN totals
    ELSE LET col     == KLOKLIJST_HOUR_COLS[i]
             val_str == Cell(row, col)
             val     == ParseHours(val_str)
             next    == IF val_str = <<>> THEN totals
                        ELSE IF ~val.ok THEN totals
                        ELSE AddWeekly(totals, norm, Str(col), val.val)
         IN  kloklijst_cols_store_zero(next, norm, row, i + 1)

\* The inner loop leaving the row at the first unparseable cell (break for
\* continue).
RECURSIVE kloklijst_cols_break(_, _, _, _)
kloklijst_cols_break(totals, norm, row, i) ==
    IF i > Len(KLOKLIJST_HOUR_COLS) THEN totals
    ELSE LET col     == KLOKLIJST_HOUR_COLS[i]
             val_str == Cell(row, col)
             val     == ParseHours(val_str)
         IN  IF val_str = <<>> THEN kloklijst_cols_break(totals, norm, row, i + 1)
             ELSE IF ~val.ok THEN totals
             ELSE IF val.val # 0
               THEN kloklijst_cols_break(AddWeekly(totals, norm, Str(col), val.val),
                                         norm, row, i + 1)
               ELSE kloklijst_cols_break(totals, norm, row, i + 1)

\* The inner loop of load_kloklijst_hours over KLOKLIJST_HOUR_COLS, from column i.
RECURSIVE kloklijst_cols(_, _, _, _)
kloklijst_cols(totals, norm, row, i) ==
    IF i > Len(KLOKLIJST_HOUR_COLS) THEN totals
    ELSE LET col     == KLOKLIJST_HOUR_COLS[i]
             val_str == Cell(row, col)
             val     == ParseHours(val_str)
             next    == IF val_str = <<>> THEN totals
                        ELSE IF ~val.ok THEN totals
                        ELSE IF val.val # 0
                               THEN AddWeekly(totals, norm, Str(col), val.val)
                               ELSE totals
         IN  kloklijst_cols(next, norm, row, i + 1)

\* The iteration without its test of Datum: a summary row is counted.
kloklijst_row_counts_summary(st, row) ==
    LET naam         == Cell(row, "Naam")
        current_name == IF naam # <<>> THEN naam ELSE st.current_name
    IN  IF current_name = None \/ current_name = <<>>
          THEN [current_name |-> current_name, totals |-> st.totals]
        ELSE [current_name |-> current_name,
              totals |-> kloklijst_cols(st.totals, normalize_name(current_name), row, 1)]

\* One iteration of load_kloklijst_hours' loop on the loop state
\* [current_name, totals].
kloklijst_row(st, row) ==
    LET naam         == Cell(row, "Naam")
        current_name == IF naam # <<>> THEN naam ELSE st.current_name
    IN  IF current_name = None \/ current_name = <<>>
          THEN [current_name |-> current_name, totals |-> st.totals]
        ELSE IF Cell(row, "Datum") = <<>>
          THEN [current_name |-> current_name, totals |-> st.totals]
        ELSE [current_name |-> current_name,
              totals |-> kloklijst_cols(st.totals, normalize_name(current_name), row, 1)]

RECURSIVE kloklijst_rows(_, _)
kloklijst_rows(st, rows) ==
    IF rows = <<>> THEN st
    ELSE kloklijst_rows(kloklijst_row(st, Head(rows)), Tail(rows))

load_kloklijst_hours(file) ==
    kloklijst_rows([current_name |-> None, totals |-> EmptyDict], file).totals

\* The inner loop of load_kloklijst_hours_by_date, from column i.
RECURSIVE kloklijst_cols_by_date(_, _, _, _, _)
kloklijst_cols_by_date(totals, norm, date_key, row, i) ==
    IF i > Len(KLOKLIJST_HOUR_COLS) THEN totals
    ELSE LET col     == KLOKLIJST_HOUR_COLS[i]
             val_str == Cell(row, col)
             val     == ParseHours(val_str)
             next    == IF val_str = <<>> THEN totals
                        ELSE IF ~val.ok THEN totals
                        ELSE IF val.val # 0
                               THEN AddDaily(totals, norm, date_key, Str(col), val.val)
                               ELSE totals
         IN  kloklijst_cols_by_date(next, norm, date_key, row, i + 1)

\* The iteration without the check of the date: a row without one is counted.
kloklijst_row_by_date_counts_summary(st, row) ==
    LET naam         == Cell(row, "Naam")
        current_name == IF naam # <<>> THEN naam ELSE st.current_name
        datum        == Cell(row, "Datum")
    IN  IF current_name = None \/ current_name = <<>>
          THEN [current_name |-> current_name, totals |-> st.totals]
        ELSE [current_name |-> current_name,
              totals |-> kloklijst_cols_by_date(st.totals, normalize_name(current_name),
                                                normalize_date(datum), row, 1)]

\* One iteration of load_kloklijst_hours_by_date's loop.
kloklijst_row_by_date(st, row) ==
    LET naam         == Cell(row, "Naam")
        current_name == IF naam # <<>> THEN naam ELSE st.current_name
        datum        == Cell(row, "Datum")
    IN  IF current_name = None \/ current_name = <<>>
          THEN [current_name |-> current_name, totals |-> st.totals]
        ELSE IF datum = <<>>
          THEN [current_name |-> current_name, totals |-> st.totals]
        ELSE [current_name |-> current_name,
              totals |-> kloklijst_cols_by_date(st.totals, normalize_name(current_name),
                                                normalize_date(datum), row, 1)]

RECURSIVE kloklijst_rows_by_date(_, _)
kloklijst_rows_by_date(st, rows) ==
    IF rows = <<>> THEN st
    ELSE kloklijst_rows_by_date(kloklijst_row_by_date(st, Head(rows)), Tail(rows))

load_kloklijst_hours_by_date(file) ==
    kloklijst_rows_by_date([current_name |-> None, totals |-> EmptyDict], file).totals

(***************************************************************************)
(* build_rows                                                              *)
(***************************************************************************)

\* A float in an output row (an hours field is a float or the empty string).
Float(x) == [float |-> x]

ZeroCounts == [ok |-> 0, verschil |-> 0, only_factuur |-> 0, only_kloklijst |-> 0]

\* The row's leading fields: name, date (daily only) and category.
BaseFields(name, date, cat, include_date) ==
    IF include_date
      THEN ("Naam" :> name) @@ ("Datum" :> date) @@ ("Code toeslag" :> cat)
      ELSE ("Naam" :> name) @@ ("Code toeslag" :> cat)

HoursFields(f, k, v, status) ==
    ("Factuur uren" :> f) @@ ("Kloklijst uren" :> k) @@ ("Verschil" :> v)
        @@ ("Status" :> status)

\* The loop body with a missing side read as 0 hours (get(cat, 0)).
build_cat_absent_as_zero(acc, name, date, cat, f_cats, k_cats, include_date) ==
    LET f_uren == DictGet(f_cats, cat, 0)
        k_uren == DictGet(k_cats, cat, 0)
        diff   == round2(f_uren - k_uren)
    IN  [rows |-> Append(acc.rows,
                    BaseFields(name, date, cat, include_date)
                      @@ HoursFields(Float(round2(f_uren)), Float(round2(k_uren)), Float(diff),
                                     IF diff = 0 THEN "OK" ELSE "VERSCHIL")),
         counts |-> IF diff # 0
                      THEN [acc.counts EXCEPT !.verschil = @ + 1]
                      ELSE [acc.counts EXCEPT !.ok = @ + 1]]

\* The loop body with the status and the counter decided on the unrounded hours.
build_cat_status_on_raw(acc, name, date, cat, f_cats, k_cats, include_date) ==
    LET base == BaseFields(name, date, cat, include_date)
    IN  IF cat \notin DOMAIN f_cats
          THEN [rows |-> Append(acc.rows,
                            base @@ HoursFields(<<>>, Float(round2(k_cats[cat])), <<>>,
                                                "ALLEEN IN KLOKLIJST")),
                counts |-> [acc.counts EXCEPT !.only_kloklijst = @ + 1]]
        ELSE IF cat \notin DOMAIN k_cats
          THEN [rows |-> Append(acc.rows,
                            base @@ HoursFields(Float(round2(f_cats[cat])), <<>>, <<>>,
                                                "ALLEEN IN FACTUUR")),
                counts |-> [acc.counts EXCEPT !.only_factuur = @ + 1]]
        ELSE [rows |-> Append(acc.rows,
                         base @@ HoursFields(Float(round2(f_cats[cat])),
                                             Float(round2(k_cats[cat])),
                                             Float(round2(f_cats[cat] - k_cats[cat])),
                                             IF f_cats[cat] = k_cats[cat] THEN "OK"
                                                                          ELSE "VERSCHIL")),
              counts |-> IF f_cats[cat] # k_cats[cat]
                           THEN [acc.counts EXCEPT !.verschil = @ + 1]
                           ELSE [acc.counts EXCEPT !.ok = @ + 1]]

\* The body of the loop over all_cats: one row appended, one counter incremented.
\* acc is [rows, counts].
build_cat(acc, name, date, cat, f_cats, k_cats, include_date) ==
    LET base == BaseFields(name, date, cat, include_date)
    IN  IF cat \notin DOMAIN f_cats
          THEN [rows |-> Append(acc.rows,
                            base @@ HoursFields(<<>>, Float(round2(k_cats[cat])), <<>>,
                                                "ALLEEN IN KLOKLIJST")),
                counts |-> [acc.counts EXCEPT !.only_kloklijst = @ + 1]]
        ELSE IF cat \notin DOMAIN k_cats
          THEN [rows |-> Append(acc.rows,
                            base @@ HoursFields(Float(round2(f_cats[cat])), <<>>, <<>>,
                                                "ALLEEN IN FACTUUR")),
                counts |-> [acc.counts EXCEPT !.only_factuur = @ + 1]]
        ELSE LET diff   == round2(f_cats[cat] - k_cats[cat])
                 status == IF diff = 0 THEN "OK" ELSE "VERSCHIL"
             IN  [rows |-> Append(acc.rows,
                              base @@ HoursFields(Float(round2(f_cats[cat])),
                                                  Float(round2(k_cats[cat])),
                                                  Float(diff), status)),
                  counts |-> IF diff # 0
                               THEN [acc.counts EXCEPT !.verschil = @ + 1]
                               ELSE [acc.counts EXCEPT !.ok = @ + 1]]

\* for cat in all_cats
RECURSIVE build_cats(_, _, _, _, _, _, _)
build_cats(acc, name, date, all_cats, f_cats, k_cats, include_date) ==
    IF all_cats = <<>> THEN acc
    ELSE build_cats(build_cat(acc, name, date, Head(all_cats), f_cats, k_cats, include_date),
                    name, date, Tail(all_cats), f_cats, k_cats, include_date)

\* for date, f_cats, k_cats in iterations (daily: one iteration per date)
RECURSIVE build_dates(_, _, _, _, _)
build_dates(acc, name, all_dates, f_by_name, k_by_name) ==
    IF all_dates = <<>> THEN acc
    ELSE LET date   == Head(all_dates)
             f_cats == DictGet(f_by_name, date, EmptyDict)
             k_cats == DictGet(k_by_name, date, EmptyDict)
         IN  build_dates(build_cats(acc, name, date,
                                    SortedSet(DOMAIN f_cats \cup DOMAIN k_cats),
                                    f_cats, k_cats, TRUE),
                         name, Tail(all_dates), f_by_name, k_by_name)

\* for name in all_names
RECURSIVE build_names(_, _, _, _, _)
build_names(acc, all_names, factuur_, kloklijst_, include_date) ==
    IF all_names = <<>> THEN acc
    ELSE LET name      == Head(all_names)
             f_by_name == DictGet(factuur_, name, EmptyDict)
             k_by_name == DictGet(kloklijst_, name, EmptyDict)
             after     ==
                IF include_date
                  THEN build_dates(acc, name,
                                   SortedSet(DOMAIN f_by_name \cup DOMAIN k_by_name),
                                   f_by_name, k_by_name)
                  ELSE build_cats(acc, name, None,
                                  SortedSet(DOMAIN f_by_name \cup DOMAIN k_by_name),
                                  f_by_name, k_by_name, FALSE)
         IN  build_names(after, Tail(all_names), factuur_, kloklijst_, include_date)

\* build_rows over the names of the invoice alone (set(factuur) for the union).
build_rows_factuur_names(factuur_, kloklijst_, include_date) ==
    build_names([rows |-> <<>>, counts |-> ZeroCounts],
                SortedSet(DOMAIN factuur_),
                factuur_, kloklijst_, include_date)

\* build_rows(factuur, kloklijst, include_date): [rows, counts]
build_rows(factuur_, kloklijst_, include_date) ==
    build_names([rows |-> <<>>, counts |-> ZeroCounts],
                SortedSet(DOMAIN factuur_ \cup DOMAIN kloklijst_),
                factuur_, kloklijst_, include_date)

(***************************************************************************)
(* The state: the file system, the calls of run_validation in progress     *)
(* (each with its locals) and, for a function called on its own, its       *)
(* argument and its return value.                                          *)
(***************************************************************************)

VARIABLES
    fs,               \* path -> content, for the files that exist
    pc,               \* call -> the statement of run_validation it is at
    week,             \* call -> its week argument
    factuur,          \* call -> load_factuur_hours' result
    kloklijst,        \* call -> load_kloklijst_hours' result
    factuur_daily,    \* call -> load_factuur_hours_by_date's result
    kloklijst_daily,  \* call -> load_kloklijst_hours_by_date's result
    rows,             \* call -> the weekly rows
    counts,           \* call -> the weekly counts
    rows_daily,       \* call -> the daily rows
    counts_daily,     \* call -> the daily counts
    result,           \* call -> what the call returned or raised
    arg,              \* the argument of a function called on its own
    ret               \* whether it returned, and its return value

locals == <<factuur, kloklijst, factuur_daily, kloklijst_daily,
            rows, counts, rows_daily, counts_daily>>

vars == <<fs, pc, week, factuur, kloklijst, factuur_daily, kloklijst_daily,
          rows, counts, rows_daily, counts_daily, result, arg, ret>>

(***************************************************************************)
(* run_validation                                                          *)
(***************************************************************************)

\* The weekly output path without the week in it.
output_file_unprefixed(w) == "output/validation_hours.csv"

factuur_file(w)      == "formatted_input/" \o w \o " Padifood specificatie - Export Factuur.csv"
kloklijst_file(w)    == "formatted_input/" \o w \o " Kloklijst Padifood Otto Workforce.csv"
output_file(w)       == "output/" \o w \o " validation_hours.csv"
output_file_daily(w) == "output/" \o w \o " validation_hours_daily.csv"

WeeklyFieldnames ==
    <<"Naam", "Code toeslag", "Factuur uren", "Kloklijst uren", "Verschil", "Status">>

DailyFieldnames ==
    <<"Naam", "Datum", "Code toeslag", "Factuur uren", "Kloklijst uren", "Verschil",
      "Status">>

\* What csv.DictWriter leaves in a file opened with "w": the header, then each
\* row's values in the order of the fieldnames.
WrittenFile(fieldnames, rs) ==
    <<fieldnames>> \o [i \in 1..Len(rs) |->
                          [j \in 1..Len(fieldnames) |-> rs[i][fieldnames[j]]]]

FileNotFoundError(path) ==
    [raised |-> "FileNotFoundError", message |-> "Bestand niet gevonden: " \o path]

\* The checks with the one of the timesheet file forgotten.
check_inputs_factuur_only(c) ==
    /\ pc[c] = "start"
    /\ IF factuur_file(week[c]) \notin DOMAIN fs
         THEN /\ result' = [result EXCEPT ![c] = FileNotFoundError(factuur_file(week[c]))]
              /\ pc' = [pc EXCEPT ![c] = "raised"]
         ELSE /\ result' = result
              /\ pc' = [pc EXCEPT ![c] = "load_factuur"]
    /\ UNCHANGED <<fs, week, locals, arg, ret>>

\* The two os.path.exists checks.
check_inputs(c) ==
    /\ pc[c] = "start"
    /\ IF factuur_file(week[c]) \notin DOMAIN fs
         THEN /\ result' = [result EXCEPT ![c] = FileNotFoundError(factuur_file(week[c]))]
              /\ pc' = [pc EXCEPT ![c] = "raised"]
       ELSE IF kloklijst_file(week[c]) \notin DOMAIN fs
         THEN /\ result' = [result EXCEPT ![c] = FileNotFoundError(kloklijst_file(week[c]))]
              /\ pc' = [pc EXCEPT ![c] = "raised"]
       ELSE /\ result' = result
            /\ pc' = [pc EXCEPT ![c] = "load_factuur"]
    /\ UNCHANGED <<fs, week, locals, arg, ret>>

\* factuur = load_factuur_hours(factuur_file)
run_load_factuur(c) ==
    /\ pc[c] = "load_factuur"
    /\ factuur_file(week[c]) \in DOMAIN fs
    /\ factuur' = [factuur EXCEPT ![c] = load_factuur_hours(fs[factuur_file(week[c])])]
    /\ pc' = [pc EXCEPT ![c] = "load_kloklijst"]
    /\ UNCHANGED <<fs, week, kloklijst, factuur_daily, kloklijst_daily,
                   rows, counts, rows_daily, counts_daily, result, arg, ret>>

\* kloklijst = load_kloklijst_hours(kloklijst_file)
run_load_kloklijst(c) ==
    /\ pc[c] = "load_kloklijst"
    /\ kloklijst_file(week[c]) \in DOMAIN fs
    /\ kloklijst' = [kloklijst EXCEPT ![c] = load_kloklijst_hours(fs[kloklijst_file(week[c])])]
    /\ pc' = [pc EXCEPT ![c] = "load_factuur_daily"]
    /\ UNCHANGED <<fs, week, factuur, factuur_daily, kloklijst_daily,
                   rows, counts, rows_daily, counts_daily, result, arg, ret>>

\* factuur_daily = load_factuur_hours_by_date(factuur_file)
run_load_factuur_daily(c) ==
    /\ pc[c] = "load_factuur_daily"
    /\ factuur_file(week[c]) \in DOMAIN fs
    /\ factuur_daily' =
          [factuur_daily EXCEPT ![c] = load_factuur_hours_by_date(fs[factuur_file(week[c])])]
    /\ pc' = [pc EXCEPT ![c] = "load_kloklijst_daily"]
    /\ UNCHANGED <<fs, week, factuur, kloklijst, kloklijst_daily,
                   rows, counts, rows_daily, counts_daily, result, arg, ret>>

\* kloklijst_daily = load_kloklijst_hours_by_date(kloklijst_file)
run_load_kloklijst_daily(c) ==
    /\ pc[c] = "load_kloklijst_daily"
    /\ kloklijst_file(week[c]) \in DOMAIN fs
    /\ kloklijst_daily' =
          [kloklijst_daily EXCEPT
              ![c] = load_kloklijst_hours_by_date(fs[kloklijst_file(week[c])])]
    /\ pc' = [pc EXCEPT ![c] = "build_weekly"]
    /\ UNCHANGED <<fs, week, factuur, kloklijst, factuur_daily,
                   rows, counts, rows_daily, counts_daily, result, arg, ret>>

\* rows, counts = build_rows(factuur, kloklijst, include_date=False)
run_build_weekly(c) ==
    /\ pc[c] = "build_weekly"
    /\ LET built == build_rows(factuur[c], kloklijst[c], FALSE)
       IN  /\ rows' = [rows EXCEPT ![c] = built.rows]
           /\ counts' = [counts EXCEPT ![c] = built.counts]
    /\ pc' = [pc EXCEPT ![c] = "write_weekly"]
    /\ UNCHANGED <<fs, week, factuur, kloklijst, factuur_daily, kloklijst_daily,
                   rows_daily, counts_daily, result, arg, ret>>

\* The weekly write with the file opened for appending ("a").
run_write_weekly_append(c) ==
    /\ pc[c] = "write_weekly"
    /\ fs' = DictPut(fs, output_file(week[c]),
                     DictGet(fs, output_file(week[c]), <<>>)
                         \o WrittenFile(WeeklyFieldnames, rows[c]))
    /\ pc' = [pc EXCEPT ![c] = "build_daily"]
    /\ UNCHANGED <<week, locals, result, arg, ret>>

\* with open(output_file, "w") ...: writer.writeheader(); writer.writerows(rows)
run_write_weekly(c) ==
    /\ pc[c] = "write_weekly"
    /\ fs' = DictPut(fs, output_file(week[c]), WrittenFile(WeeklyFieldnames, rows[c]))
    /\ pc' = [pc EXCEPT ![c] = "build_daily"]
    /\ UNCHANGED <<week, locals, result, arg, ret>>

\* rows_daily, counts_daily = build_rows(factuur_daily, kloklijst_daily, include_date=True)
run_build_daily(c) ==
    /\ pc[c] = "build_daily"
    /\ LET built == build_rows(factuur_daily[c], kloklijst_daily[c], TRUE)
       IN  /\ rows_daily' = [rows_daily EXCEPT ![c] = built.rows]
           /\ counts_daily' = [counts_daily EXCEPT ![c] = built.counts]
    /\ pc' = [pc EXCEPT ![c] = "write_daily"]
    /\ UNCHANGED <<fs, week, factuur, kloklijst, factuur_daily, kloklijst_daily,
                   rows, counts, result, arg, ret>>

\* with open(output_file_daily, "w") ...
run_write_daily(c) ==
    /\ pc[c] = "write_daily"
    /\ fs' = DictPut(fs, output_file_daily(week[c]),
                     WrittenFile(DailyFieldnames, rows_daily[c]))
    /\ pc' = [pc EXCEPT ![c] = "return"]
    /\ UNCHANGED <<week, locals, result, arg, ret>>

\* return {...}
run_return(c) ==
    /\ pc[c] = "return"
    /\ result' = [result EXCEPT ![c] =
                    [week |-> week[c],
                     inputFactuurFile |-> factuur_file(week[c]),
                     inputKloklijstFile |-> kloklijst_file(week[c]),
                     outputFileWeek |-> output_file(week[c]),
                     outputFileDay |-> output_file_daily(week[c]),
                     rowsWeek |-> rows[c],
                     rowsDay |-> rows_daily[c],
                     countsWeek |-> counts[c],
                     countsDay |-> counts_daily[c]]]
    /\ pc' = [pc EXCEPT ![c] = "returned"]
    /\ UNCHANGED <<fs, week, locals, arg, ret>>

(***************************************************************************)
(* format_validation_email_body                                            *)
(***************************************************************************)

\* The character of a digit d in 0..9
DigitChar(d) == SubSeq("0123456789", d + 1, d + 1)

\* str(n) of an integer n >= 0
RECURSIVE NatToStr(_)
NatToStr(n) ==
    IF n < 10 THEN <<DigitChar(n)>>
    ELSE NatToStr(n \div 10) \o <<DigitChar(n % 10)>>

\* The magnitude of a number.
Abs(x) == IF x < 0 THEN 0 - x ELSE x

\* _fmt_value(value)
_fmt_value(value) ==
    IF value = None \/ value = <<>> THEN Str("-") ELSE value

\* _fmt_hours(value), the value "" or a float: an integral number as str(int(..)),
\* any other as f"{number:.2f}" with a decimal comma.  (A value of None is
\* row_hours' case of a missing key.)
_fmt_hours(value) ==
    IF value = <<>> THEN Str("-")
    ELSE LET number == value.float
         IN  IF number % 1000 = 0
               THEN (IF number < 0 THEN <<"-">> ELSE <<>>)
                        \o NatToStr(Abs(number) \div 1000)
               ELSE LET hundredths == Abs(round2(number))
                        frac       == hundredths \div 10 % 100
                    IN  (IF number < 0 THEN <<"-">> ELSE <<>>)
                            \o NatToStr(hundredths \div 1000)
                            \o <<",">>
                            \o <<DigitChar(frac \div 10), DigitChar(frac % 10)>>

\* "\n".join(lines)
RECURSIVE JoinLines(_)
JoinLines(lines) ==
    IF lines = <<>> THEN <<>>
    ELSE IF Len(lines) = 1 THEN Head(lines)
    ELSE Head(lines) \o <<"\n">> \o JoinLines(Tail(lines))

\* row.get(key)
RowGet(row, key) == IF key \in DOMAIN row THEN row[key] ELSE None

\* _fmt_hours(row.get(key))
row_hours(row, key) == IF key \in DOMAIN row THEN _fmt_hours(row[key]) ELSE Str("-")

\* row.get("Status") == status
StatusIs(row, status) == "Status" \in DOMAIN row /\ row["Status"] = status

\* The line appended for one row of week_mismatches.
mismatch_line(row) ==
    LET name            == _fmt_value(RowGet(row, "Naam"))
        code            == _fmt_value(RowGet(row, "Code toeslag"))
        factuur_hours   == row_hours(row, "Factuur uren")
        kloklijst_hours == row_hours(row, "Kloklijst uren")
    IN  IF StatusIs(row, "VERSCHIL")
          THEN Str("- Bij ") \o name \o Str(" staat ") \o factuur_hours
                   \o Str(" uur voor ") \o code \o Str(", maar dit moet ")
                   \o kloklijst_hours \o Str(" uur zijn.")
        ELSE IF StatusIs(row, "ALLEEN IN FACTUUR")
          THEN Str("- Bij ") \o name \o Str(" staat ") \o factuur_hours
                   \o Str(" uur voor ") \o code
                   \o Str(" op de factuur, maar deze uren staan niet op onze kloklijsten.")
        ELSE IF StatusIs(row, "ALLEEN IN KLOKLIJST")
          THEN Str("- Bij ") \o name \o Str(" staat ") \o kloklijst_hours
                   \o Str(" uur voor ") \o code
                   \o Str(" op onze kloklijsten, maar deze uren ontbreken op de factuur.")
        ELSE Str("- Bij ") \o name \o Str(" is een discrepantie gevonden voor ") \o code
                 \o Str(" (status: ")
                 \o (IF "Status" \in DOMAIN row THEN Str(row["Status"]) ELSE Str("-"))
                 \o Str(").")

\* The body composed from the rows rows_week for the week week_.
email_body(week_, rows_week) ==
    LET week_mismatches == SelectSeq(rows_week, LAMBDA row : ~StatusIs(row, "OK"))
    IN  IF week_mismatches = <<>>
          THEN JoinLines(<< Str("Goedemorgen,"),
                            <<>>,
                            Str("Voor week ") \o Str(week_)
                                \o Str(" hebben we op bovenstaande factuur geen discrepanties ")
                                \o Str("gevonden met onze kloklijsten."),
                            <<>>,
                            Str("Bedankt!") >>)
          ELSE JoinLines(<< Str("Goedemorgen,"),
                            <<>>,
                            Str("Op bovenstaande factuur hebben we voor week ") \o Str(week_)
                                \o Str(" de volgende discrepanties gevonden met onze kloklijsten:") >>
                         \o [i \in 1..Len(week_mismatches) |-> mismatch_line(week_mismatches[i])]
                         \o << <<>>, Str("Kan hier een correctie van worden gemaakt?"),
                               <<>>, Str("Bedankt!") >>)

\* The body composed from the daily rows instead of the weekly ones.
format_validation_email_body_daily(result_) ==
    email_body(result_.week, result_.rowsDay)

\* format_validation_email_body(result)
format_validation_email_body(result_) ==
    email_body(result_.week, result_.rowsWeek)

(***************************************************************************)
(* The caller                                                              *)
(***************************************************************************)

\* The caller runs run_validation again, for the same week, once the call
\* before it has returned.
run_again(first, second) ==
    /\ pc[first] = "returned"
    /\ pc[second] = "not_called"
    /\ week[second] = week[first]
    /\ pc' = [pc EXCEPT ![second] = "start"]
    /\ UNCHANGED <<fs, week, locals, result, arg, ret>>

(***************************************************************************)
(* Functions called on their own                                           *)
(***************************************************************************)

\* normalize_name(arg)
call_normalize_name ==
    /\ ~ret.returned
    /\ ret' = [returned |-> TRUE, value |-> normalize_name(arg)]
    /\ UNCHANGED <<fs, pc, week, locals, result, arg>>

\* build_rows(arg.factuur, arg.kloklijst, arg.include_date)
call_build_rows ==
    /\ ~ret.returned
    /\ ret' = [returned |-> TRUE,
               value |-> build_rows(arg.factuur, arg.kloklijst, arg.include_date)]
    /\ UNCHANGED <<fs, pc, week, locals, result, arg>>

\* format_validation_email_body(arg)
call_format_validation_email_body ==
    /\ ~ret.returned
    /\ ret' = [returned |-> TRUE, value |-> format_validation_email_body(arg)]
    /\ UNCHANGED <<fs, pc, week, locals, result, arg>>

(***************************************************************************)
(* Inputs                                                                  *)
(***************************************************************************)

\* The sequences over S of length at most n.
SeqsUpTo(S, n) == UNION {[1..k -> S] : k \in 0..n}

FactuurRow(naam, code, datum, uren) ==
    ("Naam" :> Str(naam)) @@ ("Code toeslag" :> Str(code)) @@ ("Datum" :> Str(datum))
        @@ ("Totaal uren" :> Str(uren))

\* A timesheet row of a file whose header holds two of the seven hour columns.
KlokRow(naam, datum, t135, t200) ==
    ("Naam" :> Str(naam)) @@ ("Datum" :> Str(datum)) @@ ("T135 Dag" :> Str(t135))
        @@ ("T200 Dag" :> Str(t200))

Calls == {"call1"}

NoLocals == [c \in Calls |-> None]

\* No function is being called on its own.
NotCalled == [returned |-> FALSE, value |-> None]

\* A file an earlier run left in output/.
StaleOutput == << <<"Naam">>, <<Str("stale")>> >>

(***************************************************************************)
(* Spec: run_validation("202551") from start to end, on input files of at  *)
(* most MaxRunRows rows each, either of which may be missing, with or      *)
(* without output files of an earlier run.                                 *)
(***************************************************************************)

MaxRunRows == 1

RunFactuurRows ==
    {FactuurRow("Jane Doe", code, "2025-12-15", uren) :
        code \in {"T135", "T135 Dag"}, uren \in {"8.5", "8.0"}}

RunKlokRows ==
    {KlokRow("Doe Jane", "2025-12-15", t135, "") : t135 \in {"8.0", "8,5"}}

Init ==
    /\ \E f \in SeqsUpTo(RunFactuurRows, MaxRunRows),
          k \in SeqsUpTo(RunKlokRows, MaxRunRows),
          has_f \in BOOLEAN, has_k \in BOOLEAN, stale \in BOOLEAN :
          fs = [p \in (IF has_f THEN {factuur_file("202551")} ELSE {})
                      \cup (IF has_k THEN {kloklijst_file("202551")} ELSE {})
                      \cup (IF stale THEN {output_file("202551"),
                                           output_file_daily("202551")} ELSE {})
                  |-> IF p = factuur_file("202551") THEN f
                      ELSE IF p = kloklijst_file("202551") THEN k
                      ELSE StaleOutput]
    /\ pc = [c \in Calls |-> "start"]
    /\ week = [c \in Calls |-> "202551"]
    /\ factuur = NoLocals /\ kloklijst = NoLocals
    /\ factuur_daily = NoLocals /\ kloklijst_daily = NoLocals
    /\ rows = NoLocals /\ counts = NoLocals
    /\ rows_daily = NoLocals /\ counts_daily = NoLocals
    /\ result = NoLocals
    /\ arg = None /\ ret = NotCalled

\* run_validation, one statement of one call at a time.
Next ==
    \/ \E c \in DOMAIN pc : check_inputs(c)
    \/ \E c \in DOMAIN pc : run_load_factuur(c)
    \/ \E c \in DOMAIN pc : run_load_kloklijst(c)
    \/ \E c \in DOMAIN pc : run_load_factuur_daily(c)
    \/ \E c \in DOMAIN pc : run_load_kloklijst_daily(c)
    \/ \E c \in DOMAIN pc : run_build_weekly(c)
    \/ \E c \in DOMAIN pc : run_write_weekly(c)
    \/ \E c \in DOMAIN pc : run_build_daily(c)
    \/ \E c \in DOMAIN pc : run_write_daily(c)
    \/ \E c \in DOMAIN pc : run_return(c)

Spec == Init /\ [][Next]_vars

(***************************************************************************)
(* SpecLoad: run_validation("202551") on one input file of at most MaxRows *)
(* rows drawn from the rows below, the other input file holding no rows.   *)
(***************************************************************************)

MaxRows == 3

LoadFactuurRows ==
    { FactuurRow("Jane Doe", "T135", "2025-12-15",          "8,5"),
      FactuurRow("DOE Jane", "T135", "2025-12-15 00:00:00", "0.004"),
      FactuurRow("doe-jane", "T135", "2025-12-16",          "0.004"),
      FactuurRow("Bob",      "T135", "2025-12-15",          "x"),
      FactuurRow("Bob",      "T200", "",                    "4"),
      FactuurRow("",         "T135", "2025-12-15",          "8"),
      FactuurRow("Bob",      " ",    "2025-12-15",          "8"),
      FactuurRow("Bob",      "T200", "2025-12-15",          ""),
      FactuurRow("Bob",      "T200", "2025-12-16",          "0"),
      FactuurRow("Bob",      "T200", "2025-12-15",          "-4.") }

LoadKlokRows ==
    { KlokRow("Doe Jane", "2025-12-15",          "8",     ""),
      KlokRow("",         "2025-12-16 00:00:00", "4",     "0"),
      KlokRow("",         "",                    "999",   "999"),
      KlokRow("Bob",      "",                    "12",    ""),
      KlokRow("Bob",      "2025-12-15",          "x",     "8,5"),
      KlokRow("",         "2025-12-15",          "0",     "0,0"),
      KlokRow("jane DOE", "2025-12-16",          "0.004", ""),
      KlokRow("",         "2025-12-15",          "0.004", "x"),
      KlokRow(" ",        "2025-12-15",          "-8",    "") }

InitLoad ==
    /\ \E f \in SeqsUpTo(LoadFactuurRows, MaxRows),
          k \in SeqsUpTo(LoadKlokRows, MaxRows) :
          /\ f = <<>> \/ k = <<>>
          /\ fs = (factuur_file("202551") :> f) @@ (kloklijst_file("202551") :> k)
    /\ pc = [c \in Calls |-> "start"]
    /\ week = [c \in Calls |-> "202551"]
    /\ factuur = NoLocals /\ kloklijst = NoLocals
    /\ factuur_daily = NoLocals /\ kloklijst_daily = NoLocals
    /\ rows = NoLocals /\ counts = NoLocals
    /\ rows_daily = NoLocals /\ counts_daily = NoLocals
    /\ result = NoLocals
    /\ arg = None /\ ret = NotCalled

SpecLoad == InitLoad /\ [][Next]_vars

(***************************************************************************)
(* SpecNorm: normalize_name called on a name of at most MaxNameLen         *)
(* characters, or on one of the three spellings of the spec's example.     *)
(***************************************************************************)

MaxNameLen == 3

NormChars == {"A", "a", "b", "-", " ", "\t"}

NormNames ==
    SeqsUpTo(NormChars, MaxNameLen) \cup {Str("Jane Doe"), Str("Doe Jane"), Str("doe-jane")}

\* No call of run_validation is in progress.
NoCalls ==
    /\ fs = EmptyDict /\ pc = EmptyDict /\ week = EmptyDict
    /\ factuur = EmptyDict /\ kloklijst = EmptyDict
    /\ factuur_daily = EmptyDict /\ kloklijst_daily = EmptyDict
    /\ rows = EmptyDict /\ counts = EmptyDict
    /\ rows_daily = EmptyDict /\ counts_daily = EmptyDict
    /\ result = EmptyDict

InitNorm ==
    /\ NoCalls
    /\ arg \in NormNames
    /\ ret = NotCalled

NextNorm == call_normalize_name

SpecNorm == InitNorm /\ [][NextNorm]_vars

(***************************************************************************)
(* SpecBuild: build_rows called on two aggregates, weekly or daily, that   *)
(* hold at most MaxEntries entries together.                               *)
(***************************************************************************)

MaxEntries == 3

BuildNames == {Str("bob"), Str("doe jane")}
BuildDates == {Str("2025-12-15"), Str("2025-12-16")}
BuildCats  == {Str("T135 Dag"), Str("T200 Dag")}
BuildHours == {0, 8000, 8004}

\* The keys of an aggregate: <<name, category>> or <<name, date, category>>.
BuildKeys(include_date) ==
    IF include_date THEN BuildNames \X BuildDates \X BuildCats
                    ELSE BuildNames \X BuildCats

\* The dictionary of dictionaries that holds hours[k] under each key k.
Nested(hours) ==
    LET K == DOMAIN hours
        rest(k) == SubSeq(k, 2, Len(k))
    IN  [n \in {k[1] : k \in K} |->
            LET Kn == {k \in K : k[1] = n}
            IN  IF \A k \in Kn : Len(k) = 2
                  THEN [cat \in {k[2] : k \in Kn} |-> hours[<<n, cat>>]]
                  ELSE [d \in {k[2] : k \in Kn} |->
                          [cat \in {k[3] : k \in {j \in Kn : j[2] = d}} |->
                              hours[<<n, d, cat>>]]]]

InitBuild ==
    /\ NoCalls
    /\ \E include_date \in BOOLEAN :
          \E FK \in SUBSET BuildKeys(include_date), KK \in SUBSET BuildKeys(include_date) :
              /\ Cardinality(FK) + Cardinality(KK) <= MaxEntries
              /\ \E fh \in [FK -> BuildHours], kh \in [KK -> BuildHours] :
                    arg = [factuur |-> Nested(fh), kloklijst |-> Nested(kh),
                           include_date |-> include_date]
    /\ ret = NotCalled

NextBuild == call_build_rows

SpecBuild == InitBuild /\ [][NextBuild]_vars

(***************************************************************************)
(* SpecPar: run_validation("202551") and run_validation("202552") running  *)
(* at once, their statements interleaved in every order, on input files of *)
(* at most MaxParRows rows; the timesheet file of week 202552 may be       *)
(* missing.                                                                *)
(***************************************************************************)

MaxParRows == 1

ParFactuurRows ==
    { FactuurRow("Jane Doe", "T135 Dag", "2025-12-15", "8.5"),
      FactuurRow("Bob",      "T200 Dag", "2025-12-22", "4") }

ParKlokRows ==
    { KlokRow("Doe Jane", "2025-12-15", "8.0", ""),
      KlokRow("Bob",      "2025-12-22", "",    "4") }

ParCalls == {"call1", "call2"}

ParWeek == ("call1" :> "202551") @@ ("call2" :> "202552")

NoParLocals == [c \in ParCalls |-> None]

InitPar ==
    /\ \E f1 \in SeqsUpTo(ParFactuurRows, MaxParRows),
          k1 \in SeqsUpTo(ParKlokRows, MaxParRows),
          f2 \in SeqsUpTo(ParFactuurRows, MaxParRows),
          has_k2 \in BOOLEAN :
          fs = [p \in {factuur_file("202551"), kloklijst_file("202551"),
                       factuur_file("202552")}
                      \cup (IF has_k2 THEN {kloklijst_file("202552")} ELSE {})
                  |-> IF p = factuur_file("202551") THEN f1
                      ELSE IF p = kloklijst_file("202551") THEN k1
                      ELSE IF p = factuur_file("202552") THEN f2
                      ELSE << KlokRow("Bob", "2025-12-22", "", "3,5") >>]
    /\ pc = [c \in ParCalls |-> "start"]
    /\ week = ParWeek
    /\ factuur = NoParLocals /\ kloklijst = NoParLocals
    /\ factuur_daily = NoParLocals /\ kloklijst_daily = NoParLocals
    /\ rows = NoParLocals /\ counts = NoParLocals
    /\ rows_daily = NoParLocals /\ counts_daily = NoParLocals
    /\ result = NoParLocals
    /\ arg = None /\ ret = NotCalled

SpecPar == InitPar /\ [][Next]_vars

(***************************************************************************)
(* SpecMail: format_validation_email_body called on a result whose weekly  *)
(* rows build_rows made for at most MaxMailRows employees, and whose daily *)
(* rows are none or one VERSCHIL row.                                      *)
(***************************************************************************)

MaxMailRows == 2

MailNames == <<Str("bob"), Str("doe jane"), Str("eve"), Str("zoe")>>

MailKeys == {<<MailNames[i], Str("T135 Dag")>> : i \in 1..MaxMailRows}

MailHours == {8000, 8500, 0 - 250}

MailWeeks == {"202551", "202552"}

\* The weekly aggregates a loader may have made of the keys.
MailTotals == UNION {[K -> MailHours] : K \in SUBSET MailKeys}

\* The weekly merges the result may hold.
MailWeekly ==
    {build_rows(Nested(fh), Nested(kh), FALSE) : fh \in MailTotals, kh \in MailTotals}

\* The daily merges the result may hold.
MailDaily ==
    { build_rows(EmptyDict, EmptyDict, TRUE),
      build_rows(Nested(<<Str("bob"), Str("2025-12-15"), Str("T135 Dag")>> :> 8000),
                 Nested(<<Str("bob"), Str("2025-12-15"), Str("T135 Dag")>> :> 4000),
                 TRUE) }

\* The dictionary run_validation(w) returns for a weekly and a daily merge.
MailResult(w, weekly, daily) ==
    [week |-> w,
     inputFactuurFile |-> factuur_file(w),
     inputKloklijstFile |-> kloklijst_file(w),
     outputFileWeek |-> output_file(w),
     outputFileDay |-> output_file_daily(w),
     rowsWeek |-> weekly.rows, rowsDay |-> daily.rows,
     countsWeek |-> weekly.counts, countsDay |-> daily.counts]

InitMail ==
    /\ NoCalls
    /\ \E w \in MailWeeks, weekly \in MailWeekly, daily \in MailDaily :
          arg = MailResult(w, weekly, daily)
    /\ ret = NotCalled

NextMail == call_format_validation_email_body

SpecMail == InitMail /\ [][NextMail]_vars

(***************************************************************************)
(* SpecTwice: run_validation("202551") run twice in sequence on the same   *)
(* input files of at most MaxRunRows rows each, with or without output     *)
(* files of an earlier run.                                                *)
(***************************************************************************)

InitTwice ==
    /\ \E f \in SeqsUpTo(RunFactuurRows, MaxRunRows),
          k \in SeqsUpTo(RunKlokRows, MaxRunRows),
          stale \in BOOLEAN :
          fs = [p \in {factuur_file("202551"), kloklijst_file("202551")}
                      \cup (IF stale THEN {output_file("202551"),
                                           output_file_daily("202551")} ELSE {})
                  |-> IF p = factuur_file("202551") THEN f
                      ELSE IF p = kloklijst_file("202551") THEN k
                      ELSE StaleOutput]
    /\ pc = ("call1" :> "start") @@ ("call2" :> "not_called")
    /\ week = [c \in ParCalls |-> "202551"]
    /\ factuur = NoParLocals /\ kloklijst = NoParLocals
    /\ factuur_daily = NoParLocals /\ kloklijst_daily = NoParLocals
    /\ rows = NoParLocals /\ counts = NoParLocals
    /\ rows_daily = NoParLocals /\ counts_daily = NoParLocals
    /\ result = NoParLocals
    /\ arg = None /\ ret = NotCalled

NextTwice ==
    \/ Next
    \/ run_again("call1", "call2")

SpecTwice == InitTwice /\ [][NextTwice]_vars

(***************************************************************************)
(* SpecZero: run_validation("202551") on an invoice file and a timesheet   *)
(* file of at most MaxZeroRows rows each, whose hours are zero, or add up  *)
(* to zero, or do not.                                                     *)
(***************************************************************************)

MaxZeroRows == 2

ZeroFactuurRows ==
    { FactuurRow("Bob", "T200 Dag", "2025-12-15", "0"),
      FactuurRow("bob", "T200 Dag", "2025-12-15", "0,0"),
      FactuurRow("Bob", "T200 Dag", "2025-12-16", "4"),
      FactuurRow("Bob", "T200 Dag", "2025-12-16", "-4") }

ZeroKlokRows ==
    { KlokRow("Bob", "2025-12-15", "",  "0"),
      KlokRow("",    "2025-12-16", "8", "0.0"),
      KlokRow("bob", "2025-12-16", "",  "4") }

InitZero ==
    /\ \E f \in SeqsUpTo(ZeroFactuurRows, MaxZeroRows),
          k \in SeqsUpTo(ZeroKlokRows, MaxZeroRows) :
          fs = (factuur_file("202551") :> f) @@ (kloklijst_file("202551") :> k)
    /\ pc = [c \in Calls |-> "start"]
    /\ week = [c \in Calls |-> "202551"]
    /\ factuur = NoLocals /\ kloklijst = NoLocals
    /\ factuur_daily = NoLocals /\ kloklijst_daily = NoLocals
    /\ rows = NoLocals /\ counts = NoLocals
    /\ rows_daily = NoLocals /\ counts_daily = NoLocals
    /\ result = NoLocals
    /\ arg = None /\ ret = NotCalled

SpecZero == InitZero /\ [][Next]_vars

(***************************************************************************)
(* Properties of run_validation (checked under Spec)                       *)
(***************************************************************************)

\* The weekly rows of call c have been built.
RowsBuilt(c) == pc[c] \in {"write_weekly", "build_daily", "write_daily", "return", "returned"}

\* The invoice file of the example: 8.5 hours for "Jane Doe" under code.
ExampleFactuur(code) == <<FactuurRow("Jane Doe", code, "2025-12-15", "8.5")>>

\* The timesheet file of the example: 8.0 hours for "Doe Jane" in column "T135 Dag".
ExampleKloklijst == <<KlokRow("Doe Jane", "2025-12-15", "8.0", "")>>

\* Call c runs on the example, with the invoice hours under code.
OnExample(c, code) ==
    /\ factuur_file(week[c]) \in DOMAIN fs
    /\ kloklijst_file(week[c]) \in DOMAIN fs
    /\ fs[factuur_file(week[c])] = ExampleFactuur(code)
    /\ fs[kloklijst_file(week[c])] = ExampleKloklijst

\* C3 as the spec states it: the invoice's 8.5 hours for "Jane Doe" under "T135"
\* and the timesheet's 8.0 hours for "Doe Jane" under "T135 Dag" merge into
\* exactly one weekly row, a VERSCHIL with difference 0.5.
C3_Original ==
    \A c \in DOMAIN pc :
        (RowsBuilt(c) /\ OnExample(c, "T135")) =>
            /\ Len(rows[c]) = 1
            /\ rows[c][1]["Status"] = "VERSCHIL"
            /\ rows[c][1]["Verschil"] = Float(500)

\* C3, amended: the two names normalize to the same key "doe jane", but the
\* categories "T135" and "T135 Dag" are different keys, so the weekly merge
\* produces two rows for that employee: ("T135", ALLEEN IN FACTUUR, 8.5, no
\* difference) and ("T135 Dag", ALLEEN IN KLOKLIJST, 8.0, no difference).  The
\* single VERSCHIL row with difference 0.5 is produced when the invoice
\* category is the column name "T135 Dag" itself.
C3_CategoriesCompareByKey ==
    \A c \in DOMAIN pc :
        /\ (RowsBuilt(c) /\ OnExample(c, "T135")) =>
              /\ rows[c] =
                    << BaseFields(Str("doe jane"), None, Str("T135"), FALSE)
                         @@ HoursFields(Float(8500), <<>>, <<>>, "ALLEEN IN FACTUUR"),
                       BaseFields(Str("doe jane"), None, Str("T135 Dag"), FALSE)
                         @@ HoursFields(<<>>, Float(8000), <<>>, "ALLEEN IN KLOKLIJST") >>
              /\ counts[c] = [ok |-> 0, verschil |-> 0, only_factuur |-> 1,
                              only_kloklijst |-> 1]
        /\ (RowsBuilt(c) /\ OnExample(c, "T135 Dag")) =>
              /\ rows[c] =
                    << BaseFields(Str("doe jane"), None, Str("T135 Dag"), FALSE)
                         @@ HoursFields(Float(8500), Float(8000), Float(500), "VERSCHIL") >>
              /\ counts[c] = [ok |-> 0, verschil |-> 1, only_factuur |-> 0,
                              only_kloklijst |-> 0]

\* C3's case: the weekly rows of the example with category "T135" are built.
C3_Witness == \E c \in DOMAIN pc : RowsBuilt(c) /\ OnExample(c, "T135")

\* The input files of call c that do not exist.
MissingInputs(c) == {factuur_file(week[c]), kloklijst_file(week[c])} \ DOMAIN fs

\* C7: when an input file of run_validation(week) is missing, the call's first
\* step raises FileNotFoundError with a message naming a missing path, leaves
\* every file as it was, and the call then stays failed: it returns no result
\* and writes nothing.
C7_MissingInputRaises ==
    [][\A c \in DOMAIN pc :
          /\ (pc[c] = "start" /\ pc'[c] # "start" /\ MissingInputs(c) # {}) =>
                /\ pc'[c] = "raised"
                /\ result'[c].raised = "FileNotFoundError"
                /\ \E p \in MissingInputs(c) :
                      result'[c].message = "Bestand niet gevonden: " \o p
                /\ fs' = fs
          /\ pc[c] = "raised" => (pc'[c] = "raised" /\ result'[c] = result[c] /\ fs' = fs)
          /\ (pc[c] # "raised" /\ pc'[c] = "raised") => pc[c] = "start"
      ]_vars

\* C7's case: a call failed on a missing timesheet file, the invoice file and
\* the output files of an earlier run being there.
C7_Witness ==
    \E c \in DOMAIN pc :
        /\ pc[c] = "raised"
        /\ MissingInputs(c) = {kloklijst_file(week[c])}
        /\ output_file(week[c]) \in DOMAIN fs
        /\ fs[output_file(week[c])] = StaleOutput
        /\ fs[output_file_daily(week[c])] = StaleOutput

(***************************************************************************)
(* Properties of the loaders (checked under SpecLoad).  What a file should *)
(* add up to is stated here row by row, without the loaders' loops.        *)
(***************************************************************************)

RECURSIVE SumSeq(_)
SumSeq(xs) == IF xs = <<>> THEN 0 ELSE Head(xs) + SumSeq(Tail(xs))

MaxOf(S) == CHOOSE x \in S : \A y \in S : y <= x

FactuurFile(c) == fs[factuur_file(week[c])]
KlokFile(c) == fs[kloklijst_file(week[c])]

\* The four loaders of call c have just returned.
AllLoaded(c) == pc[c] = "build_weekly"

\* The hours a two-level or three-level aggregate holds under a key, 0 when the
\* key is absent; and whether the key is present.
HasWeekly(totals, n, cat) == n \in DOMAIN totals /\ cat \in DOMAIN totals[n]
HasDaily(totals, n, d, cat) == n \in DOMAIN totals /\ HasWeekly(totals[n], d, cat)
HoursWeekly(totals, n, cat) == IF HasWeekly(totals, n, cat) THEN totals[n][cat] ELSE 0
HoursDaily(totals, n, d, cat) == IF HasDaily(totals, n, d, cat) THEN totals[n][d][cat] ELSE 0

\* The name in force at row i of a timesheet file: the name cell of the last
\* row up to i whose name cell is not blank, None when there is none.
NameInForce(file, i) ==
    LET named == {j \in 1..i : Cell(file[j], "Naam") # <<>>}
    IN  IF named = {} THEN None ELSE Cell(file[MaxOf(named)], "Naam")

\* Row i of a timesheet file counts for employee n: a name is in force, it
\* normalizes to n, and the row has a date.
CountsFor(file, i, n) ==
    /\ NameInForce(file, i) # None
    /\ normalize_name(NameInForce(file, i)) = n
    /\ Cell(file[i], "Datum") # <<>>

\* The hours a cell stands for: its parsed value, 0 when blank or unparseable.
CellHours(row, col) ==
    IF Cell(row, col) # <<>> /\ ParseHours(Cell(row, col)).ok
      THEN ParseHours(Cell(row, col)).val ELSE 0

\* The employees and dates a timesheet file names.
KlokNames(file) ==
    {normalize_name(Cell(file[i], "Naam")) : i \in {j \in 1..Len(file) : Cell(file[j], "Naam") # <<>>}}
FileDates(file) ==
    {normalize_date(Cell(file[i], "Datum")) : i \in {j \in 1..Len(file) : Cell(file[j], "Datum") # <<>>}}

KlokWeeklySum(file, n, col) ==
    SumSeq([i \in 1..Len(file) |->
              IF CountsFor(file, i, n) THEN CellHours(file[i], col) ELSE 0])

KlokDailySum(file, n, d, col) ==
    SumSeq([i \in 1..Len(file) |->
              IF CountsFor(file, i, n) /\ normalize_date(Cell(file[i], "Datum")) = d
                THEN CellHours(file[i], col) ELSE 0])

HourCols == {KLOKLIJST_HOUR_COLS[i] : i \in 1..Len(KLOKLIJST_HOUR_COLS)}

\* C1: in both timesheet loaders the hours under (employee, column) and under
\* (employee, date, column) are the sum of the column's cells over exactly the
\* rows that have a date and whose name in force (their own name cell, or for a
\* blank one the most recent non-blank name cell before them) is the employee's:
\* rows before any name and rows without a date add nothing, whatever they hold.
C1_ForwardFillAndSummaryRows ==
    \A c \in DOMAIN pc :
        AllLoaded(c) =>
            LET file == KlokFile(c)
            IN  /\ DOMAIN kloklijst[c] \subseteq KlokNames(file)
                /\ DOMAIN kloklijst_daily[c] \subseteq KlokNames(file)
                /\ \A n \in KlokNames(file) :
                      /\ n \in DOMAIN kloklijst[c] =>
                            DOMAIN kloklijst[c][n] \subseteq {Str(col) : col \in HourCols}
                      /\ n \in DOMAIN kloklijst_daily[c] =>
                            DOMAIN kloklijst_daily[c][n] \subseteq FileDates(file)
                      /\ \A col \in HourCols :
                            /\ HoursWeekly(kloklijst[c], n, Str(col))
                                  = KlokWeeklySum(file, n, col)
                            /\ \A d \in FileDates(file) :
                                  HoursDaily(kloklijst_daily[c], n, d, Str(col))
                                      = KlokDailySum(file, n, d, col)

\* C1's case: a dated row with hours before any name, then a summary row that
\* names Bob and holds hours, then a dated row with a blank name: only the last
\* row's 4 hours are counted, for Bob.
C1_Witness ==
    \E c \in DOMAIN pc :
        /\ AllLoaded(c)
        /\ KlokFile(c) = << KlokRow("", "2025-12-16 00:00:00", "4", "0"),
                            KlokRow("Bob", "", "12", ""),
                            KlokRow("", "2025-12-16 00:00:00", "4", "0") >>
        /\ kloklijst[c] = (Str("bob") :> (Str("T135 Dag") :> 4000))
        /\ kloklijst_daily[c] =
              (Str("bob") :> (Str("2025-12-16") :> (Str("T135 Dag") :> 4000)))

\* A cell that is blank or parses to 0.
ZeroOrBlank(row, col) ==
    \/ Cell(row, col) = <<>>
    \/ ParseHours(Cell(row, col)).ok /\ ParseHours(Cell(row, col)).val = 0

\* C6: in both timesheet loaders, when every cell of an hour column on the
\* dated rows of an employee (and, daily, of one date) is blank or parses to 0,
\* the (employee, column) key, and the (employee, date, column) key, is absent
\* from the result.
C6_ZeroCreatesNoKey ==
    \A c \in DOMAIN pc :
        AllLoaded(c) =>
            LET file == KlokFile(c)
            IN  \A n \in KlokNames(file), col \in HourCols :
                  /\ (\A i \in 1..Len(file) :
                         CountsFor(file, i, n) => ZeroOrBlank(file[i], col))
                       => ~HasWeekly(kloklijst[c], n, Str(col))
                  /\ \A d \in FileDates(file) :
                       (\A i \in 1..Len(file) :
                           (CountsFor(file, i, n) /\ normalize_date(Cell(file[i], "Datum")) = d)
                              => ZeroOrBlank(file[i], col))
                         => ~HasDaily(kloklijst_daily[c], n, d, Str(col))

\* C6's case: Jane Doe's column "T200 Dag" holds a blank and a "0" on her two
\* dated rows, her column "T135 Dag" holds hours: she has the one key only.
C6_Witness ==
    \E c \in DOMAIN pc :
        /\ AllLoaded(c)
        /\ KlokFile(c) = << KlokRow("Doe Jane", "2025-12-15", "8", ""),
                            KlokRow("", "2025-12-16 00:00:00", "4", "0") >>
        /\ DOMAIN kloklijst[c][Str("doe jane")] = {Str("T135 Dag")}
        /\ DOMAIN kloklijst_daily[c][Str("doe jane")][Str("2025-12-16")] = {Str("T135 Dag")}

\* A cell that is not blank and that float() rejects.
Unparseable(row, col) == Cell(row, col) # <<>> /\ ~ParseHours(Cell(row, col)).ok

\* A timesheet row with an unparseable cell in one of its hour columns.
HasUnparseable(row) == \E col \in HourCols : Unparseable(row, col)

\* An invoice file without the rows whose hours cell is unparseable.
WithoutBadRows(file) == SelectSeq(file, LAMBDA row : ~Unparseable(row, "Totaal uren"))

\* A timesheet file with the hour cells for which Drop(row, col) holds blanked.
Blanked(file, Drop(_, _)) ==
    [i \in 1..Len(file) |->
        [col \in DOMAIN file[i] |->
            IF col \in HourCols /\ Drop(file[i], col) THEN <<>> ELSE file[i][col]]]

\* Every hour cell of a row that holds an unparseable hour cell.
InBadRow(row, col) == HasUnparseable(row)

\* The invoice loaders skip a row whose hours cell is unparseable: the result is
\* that of the file without these rows.
FactuurSkipsBadRows(c) ==
    /\ factuur[c] = load_factuur_hours(WithoutBadRows(FactuurFile(c)))
    /\ factuur_daily[c] = load_factuur_hours_by_date(WithoutBadRows(FactuurFile(c)))

\* C8 as the spec states it: in every loader a row that holds an unparseable
\* hours cell adds nothing to any bucket (for a timesheet row: none of its hour
\* cells is counted), the other rows are processed as usual, nothing is raised.
C8_Original ==
    \A c \in DOMAIN pc :
        /\ pc[c] # "raised"
        /\ AllLoaded(c) =>
              /\ FactuurSkipsBadRows(c)
              /\ kloklijst[c] = load_kloklijst_hours(Blanked(KlokFile(c), InBadRow))
              /\ kloklijst_daily[c]
                    = load_kloklijst_hours_by_date(Blanked(KlokFile(c), InBadRow))

\* C8, amended: the invoice loaders skip a row whose hours cell is unparseable;
\* the timesheet loaders skip only the unparseable cell, the row's other hour
\* cells being counted as usual.  The remaining rows are processed normally and
\* nothing is raised.
C8_UnparseableCellSkipped ==
    \A c \in DOMAIN pc :
        /\ pc[c] # "raised"
        /\ AllLoaded(c) =>
              /\ FactuurSkipsBadRows(c)
              /\ kloklijst[c] = load_kloklijst_hours(Blanked(KlokFile(c), Unparseable))
              /\ kloklijst_daily[c]
                    = load_kloklijst_hours_by_date(Blanked(KlokFile(c), Unparseable))
              /\ \A n \in KlokNames(KlokFile(c)), col \in HourCols :
                    HoursWeekly(kloklijst[c], n, Str(col)) = KlokWeeklySum(KlokFile(c), n, col)

\* C8's case: a timesheet row with "x" under "T135 Dag" and "8,5" under
\* "T200 Dag", after a row of 8 hours: the 8.5 hours are counted.
C8_Witness ==
    \E c \in DOMAIN pc :
        /\ AllLoaded(c)
        /\ KlokFile(c) = << KlokRow("Doe Jane", "2025-12-15", "8", ""),
                            KlokRow("Bob", "2025-12-15", "x", "8,5") >>
        /\ kloklijst[c] = (Str("doe jane") :> (Str("T135 Dag") :> 8000))
                            @@ (Str("bob") :> (Str("T200 Dag") :> 8500))

\* An invoice row the weekly loader accepts (name, code and hours not blank,
\* hours parseable), and one the daily loader accepts (a date as well).
AcceptedWeekly(row) ==
    /\ Cell(row, "Naam") # <<>> /\ Cell(row, "Code toeslag") # <<>>
    /\ Cell(row, "Totaal uren") # <<>> /\ ParseHours(Cell(row, "Totaal uren")).ok
AcceptedDaily(row) == AcceptedWeekly(row) /\ Cell(row, "Datum") # <<>>

\* The accepted rows of an invoice file that map to a weekly / a daily key.
FactuurWeeklyRows(file, n, code) ==
    {i \in 1..Len(file) :
        /\ AcceptedWeekly(file[i])
        /\ normalize_name(Cell(file[i], "Naam")) = n
        /\ Cell(file[i], "Code toeslag") = code}
FactuurDailyRows(file, n, d, code) ==
    {i \in FactuurWeeklyRows(file, n, code) :
        /\ AcceptedDaily(file[i])
        /\ normalize_date(Cell(file[i], "Datum")) = d}

\* The sum of the parsed hours of the rows in I.
FactuurSum(file, I) ==
    SumSeq([i \in 1..Len(file) |->
              IF i \in I THEN ParseHours(Cell(file[i], "Totaal uren")).val ELSE 0])

FactuurNames(file) ==
    {normalize_name(Cell(file[i], "Naam")) : i \in 1..Len(file)}
FactuurCodes(file) == {Cell(file[i], "Code toeslag") : i \in 1..Len(file)}

\* The rows of rs for a weekly key / a daily key.
RowsOf(rs, n, cat) ==
    {i \in 1..Len(rs) : rs[i]["Naam"] = n /\ rs[i]["Code toeslag"] = cat}
RowsOfDay(rs, n, d, cat) == {i \in RowsOf(rs, n, cat) : rs[i]["Datum"] = d}

\* C10: each loader stores under a key exactly the sum of the parsed hours of
\* the accepted rows (timesheet: counted cells) that map to the key, names
\* differing in case or word order mapping to the same key, and a key is
\* stored by the invoice loaders exactly when some accepted row maps to it;
\* the 2-decimal rounding is applied to that total in the output row only.
C10_ExactSumsRoundedAtOutput ==
    \A c \in DOMAIN pc :
        LET ff == FactuurFile(c)
            kf == KlokFile(c)
        IN  /\ AllLoaded(c) =>
                  /\ DOMAIN factuur[c] \subseteq FactuurNames(ff)
                  /\ DOMAIN factuur_daily[c] \subseteq FactuurNames(ff)
                  /\ \A n \in FactuurNames(ff), code \in FactuurCodes(ff) :
                        /\ HasWeekly(factuur[c], n, code) <=> FactuurWeeklyRows(ff, n, code) # {}
                        /\ HoursWeekly(factuur[c], n, code)
                              = FactuurSum(ff, FactuurWeeklyRows(ff, n, code))
                        /\ \A d \in FileDates(ff) :
                              /\ HasDaily(factuur_daily[c], n, d, code)
                                    <=> FactuurDailyRows(ff, n, d, code) # {}
                              /\ HoursDaily(factuur_daily[c], n, d, code)
                                    = FactuurSum(ff, FactuurDailyRows(ff, n, d, code))
                  /\ \A n \in KlokNames(kf), col \in HourCols :
                        /\ HoursWeekly(kloklijst[c], n, Str(col)) = KlokWeeklySum(kf, n, col)
                        /\ \A d \in FileDates(kf) :
                              HoursDaily(kloklijst_daily[c], n, d, Str(col))
                                  = KlokDailySum(kf, n, d, col)
            /\ pc[c] = "write_weekly" =>
                  /\ \A n \in FactuurNames(ff), code \in FactuurCodes(ff) :
                        \A i \in RowsOf(rows[c], n, code) :
                            rows[c][i]["Factuur uren"]
                                = Float(round2(FactuurSum(ff, FactuurWeeklyRows(ff, n, code))))
                  /\ \A n \in KlokNames(kf), col \in HourCols :
                        \A i \in RowsOf(rows[c], n, Str(col)) :
                            rows[c][i]["Kloklijst uren"]
                                = Float(round2(KlokWeeklySum(kf, n, col)))
            /\ pc[c] = "write_daily" =>
                  /\ \A n \in FactuurNames(ff), code \in FactuurCodes(ff), d \in FileDates(ff) :
                        \A i \in RowsOfDay(rows_daily[c], n, d, code) :
                            rows_daily[c][i]["Factuur uren"]
                                = Float(round2(FactuurSum(ff, FactuurDailyRows(ff, n, d, code))))
                  /\ \A n \in KlokNames(kf), col \in HourCols, d \in FileDates(kf) :
                        \A i \in RowsOfDay(rows_daily[c], n, d, Str(col)) :
                            rows_daily[c][i]["Kloklijst uren"]
                                = Float(round2(KlokDailySum(kf, n, d, col)))

\* C10's case: three invoice rows of 0.004 hours for one employee under three
\* spellings of the name sum to 0.012 hours, which the weekly row shows as 0.01.
C10_Witness ==
    \E c \in DOMAIN pc :
        /\ pc[c] = "write_weekly"
        /\ FactuurFile(c) = << FactuurRow("DOE Jane", "T135", "2025-12-15 00:00:00", "0.004"),
                               FactuurRow("doe-jane", "T135", "2025-12-16", "0.004"),
                               FactuurRow("DOE Jane", "T135", "2025-12-15 00:00:00", "0.004") >>
        /\ factuur[c] = (Str("doe jane") :> (Str("T135") :> 12))
        /\ factuur_daily[c][Str("doe jane")][Str("2025-12-15")][Str("T135")] = 8
        /\ Len(rows[c]) = 1
        /\ rows[c][1]["Factuur uren"] = Float(10)

(***************************************************************************)
(* Properties of normalize_name (checked under SpecNorm)                   *)
(***************************************************************************)

\* The words of a name: its maximal runs of characters other than whitespace
\* and hyphens.
RECURSIVE WordsFrom(_, _)
WordsFrom(s, cur) ==
    IF s = <<>>
      THEN IF cur = <<>> THEN <<>> ELSE <<cur>>
      ELSE IF IsSpace(Head(s)) \/ Head(s) = "-"
             THEN (IF cur = <<>> THEN <<>> ELSE <<cur>>) \o WordsFrom(Tail(s), <<>>)
             ELSE WordsFrom(Tail(s), Append(cur, Head(s)))

\* The multiset of a name's lowercased words: each word with its count.
WordBag(name) ==
    LET ws == WordsFrom(name, <<>>)
        lw == [i \in 1..Len(ws) |-> Lower(ws[i])]
    IN  [w \in {lw[i] : i \in 1..Len(lw)} |-> Cardinality({i \in 1..Len(lw) : lw[i] = w})]

WordBags == [name \in NormNames |-> WordBag(name)]

\* C9: normalize_name gives the key it returned for a name to every name with
\* the same multiset of lowercased, hyphen-split words (whatever the case, the
\* order of the words, and hyphens or whitespace between them), and the empty
\* key to the empty name.
C9_NormalizeIgnoresCaseOrderHyphens ==
    ret.returned =>
        /\ arg = <<>> => ret.value = <<>>
        /\ \A other \in NormNames :
              WordBags[other] = WordBags[arg] => normalize_name(other) = ret.value

\* C9's case: "Jane Doe" has been normalized to "doe jane".
C9_Witness ==
    /\ ret.returned
    /\ arg = Str("Jane Doe")
    /\ ret.value = Str("doe jane")
    /\ WordBags[Str("doe-jane")] = WordBags[arg]
    /\ WordBags[Str("Doe Jane")] = WordBags[arg]

(***************************************************************************)
(* Properties of build_rows (checked under SpecBuild)                      *)
(***************************************************************************)

\* Whether an aggregate holds key k (<<name, category>> or <<name, date,
\* category>>), and the hours it holds there.
HasKey(totals, k) ==
    IF Len(k) = 2 THEN HasWeekly(totals, k[1], k[2]) ELSE HasDaily(totals, k[1], k[2], k[3])
HoursAt(totals, k) ==
    IF Len(k) = 2 THEN totals[k[1]][k[2]] ELSE totals[k[1]][k[2]][k[3]]

\* The key of an output row.
RowKey(row, include_date) ==
    IF include_date THEN <<row["Naam"], row["Datum"], row["Code toeslag"]>>
                    ELSE <<row["Naam"], row["Code toeslag"]>>

\* The rows of the returned list for key k.
BuiltRowsFor(k) ==
    {i \in 1..Len(ret.value.rows) : RowKey(ret.value.rows[i], arg.include_date) = k}

RowsWithStatus(status) ==
    {i \in 1..Len(ret.value.rows) : ret.value.rows[i]["Status"] = status}

\* C2: after every call of build_rows, weekly or daily, the four counters add up
\* to the number of rows, each key present in either aggregate has exactly one
\* row, and each row is the row of such a key.
C2_MergeComplete ==
    ret.returned =>
        LET built == ret.value
            keys  == BuildKeys(arg.include_date)
        IN  /\ built.counts.ok + built.counts.verschil + built.counts.only_factuur
                  + built.counts.only_kloklijst = Len(built.rows)
            /\ \A k \in keys :
                  Cardinality(BuiltRowsFor(k)) =
                      IF HasKey(arg.factuur, k) \/ HasKey(arg.kloklijst, k) THEN 1 ELSE 0
            /\ \A i \in 1..Len(built.rows) :
                  RowKey(built.rows[i], arg.include_date) \in keys

\* C2's case: a daily merge of a key present in both aggregates and a key of
\* another employee present in the timesheet alone.
C2_Witness ==
    /\ ret.returned
    /\ arg.include_date
    /\ DOMAIN arg.factuur = {Str("doe jane")}
    /\ DOMAIN arg.kloklijst = {Str("bob"), Str("doe jane")}
    /\ Len(ret.value.rows) = 2
    /\ ret.value.counts = [ok |-> 1, verschil |-> 0, only_factuur |-> 0, only_kloklijst |-> 1]

\* C4: a key present in both aggregates has a row whose difference is the
\* invoice hours minus the timesheet hours rounded to 2 decimals and whose
\* status is OK when that difference is 0 and VERSCHIL otherwise; the ok
\* counter counts the OK rows and the verschil counter the VERSCHIL rows.
C4_DifferenceAndStatus ==
    ret.returned =>
        /\ \A k \in BuildKeys(arg.include_date) :
              (HasKey(arg.factuur, k) /\ HasKey(arg.kloklijst, k)) =>
                  LET diff == round2(HoursAt(arg.factuur, k) - HoursAt(arg.kloklijst, k))
                  IN  /\ BuiltRowsFor(k) # {}
                      /\ \A i \in BuiltRowsFor(k) :
                            /\ ret.value.rows[i]["Verschil"] = Float(diff)
                            /\ ret.value.rows[i]["Status"] = "OK" <=> diff = 0
                            /\ ret.value.rows[i]["Status"] = "VERSCHIL" <=> diff # 0
        /\ ret.value.counts.ok = Cardinality(RowsWithStatus("OK"))
        /\ ret.value.counts.verschil = Cardinality(RowsWithStatus("VERSCHIL"))

\* C4's case: 8.004 invoice hours against 8 timesheet hours under one key (OK,
\* difference 0) and 8 against 0 under another (VERSCHIL, difference 8).
C4_Witness ==
    /\ ret.returned
    /\ ~arg.include_date
    /\ arg.factuur = (Str("bob") :> (Str("T135 Dag") :> 8004 @@ Str("T200 Dag") :> 8000))
    /\ arg.kloklijst = (Str("bob") :> (Str("T135 Dag") :> 8000))
    /\ Len(ret.value.rows) = 2
    /\ ret.value.rows[1]["Status"] = "OK"
    /\ ret.value.rows[1]["Verschil"] = Float(0)
    /\ ret.value.counts.ok = 1

\* C5: a key present in one aggregate only has a row with status ALLEEN IN
\* FACTUUR when the timesheet lacks it and ALLEEN IN KLOKLIJST when the invoice
\* lacks it; the hours of the side that lacks it and the difference are the
\* empty string, not 0, and the hours of the other side are its hours rounded
\* to 2 decimals.
C5_OneSidedRows ==
    ret.returned =>
        \A k \in BuildKeys(arg.include_date) :
            /\ (HasKey(arg.factuur, k) /\ ~HasKey(arg.kloklijst, k)) =>
                  /\ BuiltRowsFor(k) # {}
                  /\ \A i \in BuiltRowsFor(k) :
                        /\ ret.value.rows[i]["Status"] = "ALLEEN IN FACTUUR"
                        /\ ret.value.rows[i]["Factuur uren"]
                              = Float(round2(HoursAt(arg.factuur, k)))
                        /\ ret.value.rows[i]["Kloklijst uren"] = <<>>
                        /\ ret.value.rows[i]["Verschil"] = <<>>
            /\ (~HasKey(arg.factuur, k) /\ HasKey(arg.kloklijst, k)) =>
                  /\ BuiltRowsFor(k) # {}
                  /\ \A i \in BuiltRowsFor(k) :
                        /\ ret.value.rows[i]["Status"] = "ALLEEN IN KLOKLIJST"
                        /\ ret.value.rows[i]["Kloklijst uren"]
                              = Float(round2(HoursAt(arg.kloklijst, k)))
                        /\ ret.value.rows[i]["Factuur uren"] = <<>>
                        /\ ret.value.rows[i]["Verschil"] = <<>>

\* C5's case: 8.004 hours on the invoice alone (shown as 8.0) and 0 hours on
\* the timesheet alone (shown as 0, the invoice hours blank).
C5_Witness ==
    /\ ret.returned
    /\ ~arg.include_date
    /\ arg.factuur = (Str("bob") :> (Str("T135 Dag") :> 8004))
    /\ arg.kloklijst = (Str("bob") :> (Str("T200 Dag") :> 0))
    /\ ret.value.rows[1]["Status"] = "ALLEEN IN FACTUUR"
    /\ ret.value.rows[1]["Factuur uren"] = Float(8000)
    /\ ret.value.rows[2]["Status"] = "ALLEEN IN KLOKLIJST"
    /\ ret.value.rows[2]["Kloklijst uren"] = Float(0)
    /\ ret.value.rows[2]["Factuur uren"] = <<>>

(***************************************************************************)
(* Agreement of the weekly and the daily loaders (checked under SpecLoad)  *)
(***************************************************************************)

\* The dates a daily aggregate holds for employee n, and the sum over them of
\* the hours it holds for n under cat.
DatesOf(daily, n) == IF n \in DOMAIN daily THEN DOMAIN daily[n] ELSE {}
SumOverDates(daily, n, cat) ==
    LET dates == SortedSet(DatesOf(daily, n))
    IN  SumSeq([i \in 1..Len(dates) |-> HoursDaily(daily, n, dates[i], cat)])

\* The categories a weekly and a daily aggregate hold for employee n.
CatsOf(weekly, daily, n) ==
    (IF n \in DOMAIN weekly THEN DOMAIN weekly[n] ELSE {})
        \cup UNION {DOMAIN daily[n][d] : d \in DatesOf(daily, n)}

\* The rows of an invoice file the weekly loader accepts for a key and the
\* daily loader does not: those without a date.
FactuurUndatedRows(file, n, code) ==
    {i \in FactuurWeeklyRows(file, n, code) : ~AcceptedDaily(file[i])}

AloneResult(w, fs_) ==
    IF factuur_file(w) \notin DOMAIN fs_ THEN FileNotFoundError(factuur_file(w))
    ELSE IF kloklijst_file(w) \notin DOMAIN fs_ THEN FileNotFoundError(kloklijst_file(w))
    ELSE LET f  == fs_[factuur_file(w)]
             k  == fs_[kloklijst_file(w)]
             wk == build_rows(load_factuur_hours(f), load_kloklijst_hours(k), FALSE)
             dy == build_rows(load_factuur_hours_by_date(f),
                              load_kloklijst_hours_by_date(k), TRUE)
         IN  [week |-> w,
              inputFactuurFile |-> factuur_file(w),
              inputKloklijstFile |-> kloklijst_file(w),
              outputFileWeek |-> output_file(w),
              outputFileDay |-> output_file_daily(w),
              rowsWeek |-> wk.rows, rowsDay |-> dy.rows,
              countsWeek |-> wk.counts, countsDay |-> dy.counts]

\* Whether call c ended by raising.
Raised(c) == pc[c] = "raised"

\* The output paths of week w.
OutputPaths(w) == {output_file(w), output_file_daily(w)}

\* The paths at which two file systems differ.
ChangedPaths(fs1, fs2) ==
    {p \in DOMAIN fs1 \cup DOMAIN fs2 :
        \/ p \notin DOMAIN fs1
        \/ p \notin DOMAIN fs2
        \/ fs1[p] # fs2[p]}

\* Every call that has ended returned or raised what it would alone, and its
\* week's output files are what it would write alone (none when it raised).
ParEndsAsAlone ==
    \A c \in DOMAIN pc :
        /\ pc[c] \in {"returned", "raised"} => result[c] = AloneResult(week[c], fs)
        /\ pc[c] \in {"build_daily", "write_daily", "return", "returned"} =>
              /\ output_file(week[c]) \in DOMAIN fs
              /\ fs[output_file(week[c])]
                    = WrittenFile(WeeklyFieldnames, AloneResult(week[c], fs).rowsWeek)
        /\ pc[c] \in {"return", "returned"} =>
              /\ output_file_daily(week[c]) \in DOMAIN fs
              /\ fs[output_file_daily(week[c])]
                    = WrittenFile(DailyFieldnames, AloneResult(week[c], fs).rowsDay)
        /\ Raised(c) => OutputPaths(week[c]) \cap DOMAIN fs = {}

\* A step of a call changes no file but the two output files of its own week.
ParWritesOwnOutputs ==
    \A c \in DOMAIN pc :
        pc'[c] # pc[c] => ChangedPaths(fs, fs') \subseteq OutputPaths(week[c])

\* C11: when run_validation runs for two different weeks at once, under every
\* interleaving of their statements, each call changes only the two output
\* files of its own week, and what each call returns (or raises) and leaves in
\* its output files is what it would return and write when running alone.
C11_ConcurrentWeeksIndependent ==
    /\ []ParEndsAsAlone
    /\ [][ParWritesOwnOutputs]_vars

\* C11's case: the call for week 202551 has returned while the call for week
\* 202552 is between its two writes, and the two weekly reports differ.
C11_Witness ==
    /\ pc = ("call1" :> "returned") @@ ("call2" :> "build_daily")
    /\ week["call1"] # week["call2"]
    /\ Len(result["call1"].rowsWeek) = 1
    /\ Len(rows["call2"]) = 1
    /\ fs[output_file("202551")] # fs[output_file("202552")]

(***************************************************************************)
(* Properties of format_validation_email_body (checked under SpecMail)     *)
(***************************************************************************)

\* text.split("\n")
Lines(text) ==
    LET newlines == {i \in 1..Len(text) : text[i] = "\n"}
        nth(j)   == IF j = 0 THEN 0
                    ELSE IF j > Cardinality(newlines) THEN Len(text) + 1
                    ELSE CHOOSE i \in newlines :
                            Cardinality({k \in newlines : k <= i}) = j
    IN  [j \in 1..(Cardinality(newlines) + 1) |->
            SubSeq(text, nth(j - 1) + 1, nth(j) - 1)]

\* Whether line begins with prefix.
StartsWith(line, prefix) ==
    Len(line) >= Len(prefix) /\ SubSeq(line, 1, Len(prefix)) = prefix

\* Whether line holds part somewhere.
Contains(line, part) ==
    \E i \in 1..(Len(line) - Len(part) + 1) : SubSeq(line, i, i + Len(part) - 1) = part

\* The weekly rows of the argument whose status is not OK, in row order.
NonOkRows == SelectSeq(arg.rowsWeek, LAMBDA row : row["Status"] # "OK")

\* The fixed message for a week without discrepancies.
NoDiscrepancies(w) ==
    Str("Goedemorgen,\n\nVoor week ") \o Str(w)
        \o Str(" hebben we op bovenstaande factuur geen discrepanties gevonden met onze kloklijsten.")
        \o Str("\n\nBedankt!")

\* The words by which a discrepancy line tells its status.
StatusWords(status) ==
    IF status = "VERSCHIL" THEN Str("maar dit moet")
    ELSE IF status = "ALLEEN IN FACTUUR" THEN Str("staan niet op onze kloklijsten")
    ELSE Str("ontbreken op de factuur")

\* C12: format_validation_email_body returns the fixed no-discrepancies
\* message of the week exactly when no weekly row has a status other than OK;
\* otherwise the text is the three header lines (the third naming the week),
\* one line per non-OK weekly row in row order, each naming that row's
\* employee and category and phrased by its status, and the four footer
\* lines.  The text is the same for every daily row set and every counts.
C12_SummaryFromWeeklyRowsOnly ==
    ret.returned =>
        LET lines == Lines(ret.value)
            n     == Len(NonOkRows)
        IN  /\ (ret.value = NoDiscrepancies(arg.week)) <=> (n = 0)
            /\ n > 0 =>
                  /\ Len(lines) = 3 + n + 4
                  /\ lines[1] = Str("Goedemorgen,")
                  /\ lines[2] = <<>>
                  /\ lines[3] = Str("Op bovenstaande factuur hebben we voor week ")
                                  \o Str(arg.week)
                                  \o Str(" de volgende discrepanties gevonden met onze kloklijsten:")
                  /\ \A i \in 1..n :
                        /\ StartsWith(lines[3 + i],
                                      Str("- Bij ") \o NonOkRows[i]["Naam"] \o Str(" staat "))
                        /\ Contains(lines[3 + i],
                                    Str(" uur voor ") \o NonOkRows[i]["Code toeslag"])
                        /\ Contains(lines[3 + i], StatusWords(NonOkRows[i]["Status"]))
                  /\ SubSeq(lines, 4 + n, 7 + n)
                        = << <<>>, Str("Kan hier een correctie van worden gemaakt?"),
                             <<>>, Str("Bedankt!") >>
            /\ \A daily \in MailDaily, other \in MailDaily :
                  format_validation_email_body(
                      [arg EXCEPT !.rowsDay = daily.rows, !.countsDay = daily.counts,
                                  !.countsWeek = other.counts]) = ret.value

\* C12's case: a result whose weekly rows are one OK row and one VERSCHIL row
\* and whose daily rows hold a VERSCHIL row; the text has one discrepancy line.
C12_Witness ==
    /\ ret.returned
    /\ Len(arg.rowsWeek) = 2
    /\ arg.rowsWeek[1]["Status"] = "OK"
    /\ arg.rowsWeek[2]["Status"] = "VERSCHIL"
    /\ Len(arg.rowsDay) = 1
    /\ Len(Lines(ret.value)) = 8
    /\ Lines(ret.value)[4]
          = Str("- Bij doe jane staat 8,50 uur voor T135 Dag, maar dit moet 8 uur zijn.")

(***************************************************************************)
(* Properties of two runs in sequence (checked under SpecTwice)            *)
(***************************************************************************)

\* The output files of the week of call c hold the header and the rows that
\* call c returned, and nothing else.
OutputsAreOf(c) ==
    /\ OutputPaths(week[c]) \subseteq DOMAIN fs
    /\ fs[output_file(week[c])] = WrittenFile(WeeklyFieldnames, result[c].rowsWeek)
    /\ fs[output_file_daily(week[c])] = WrittenFile(DailyFieldnames, result[c].rowsDay)

\* Once a run has returned, the output files are its own rows only; once the
\* second run has returned, it has returned what the first returned and the
\* summary text is the same.
TwiceSameResult ==
    /\ \A c \in DOMAIN pc : pc[c] = "returned" => OutputsAreOf(c)
    /\ pc["call2"] = "returned" =>
          /\ result["call2"] = result["call1"]
          /\ format_validation_email_body(result["call2"])
                = format_validation_email_body(result["call1"])

\* No step of the second run changes a file: each of its writes leaves the
\* file as the first run left it.
TwiceSameFiles ==
    pc'["call2"] # pc["call2"] => fs' = fs

\* C13: when run_validation runs twice in sequence for the same week on the
\* same input files, the first run leaves in the two output files its own
\* header and rows whatever they held before, every write of the second run
\* leaves the files as the first run left them, and the second run returns
\* the result of the first, so that the summary text is the same.
C13_SecondRunChangesNothing ==
    /\ []TwiceSameResult
    /\ [][TwiceSameFiles]_vars

\* C13's case: the second run has returned after the first, with a row in the
\* weekly report.
C13_Witness ==
    /\ pc = ("call1" :> "returned") @@ ("call2" :> "returned")
    /\ week["call1"] = week["call2"]
    /\ Len(result["call2"].rowsWeek) >= 1
    /\ Len(fs[output_file("202551")]) = 1 + Len(result["call2"].rowsWeek)

(***************************************************************************)
(* Properties of zero hours (checked under SpecZero)                       *)
(***************************************************************************)

\* Every cell of the hour column named cat on the rows of a timesheet file that
\* count for employee n is blank or parses to 0.
KlokOnlyZero(file, n, cat) ==
    \A i \in 1..Len(file), col \in HourCols :
        (Str(col) = cat /\ CountsFor(file, i, n)) => ZeroOrBlank(file[i], col)

\* C14: an accepted invoice row creates its (employee, category) key even when
\* its hours parse to 0, so that a key whose accepted rows add up to 0 is
\* present with 0 hours, while a timesheet column with none but zero or blank
\* cells for the employee creates no key; for such a key the weekly merge
\* has one row, ALLEEN IN FACTUUR with invoice hours 0 and blank timesheet
\* hours, and no OK row.
C14_ZeroAsymmetry ==
    \A c \in DOMAIN pc :
        RowsBuilt(c) =>
            LET ff == FactuurFile(c)
                kf == KlokFile(c)
            IN  \A n \in FactuurNames(ff), cat \in FactuurCodes(ff) :
                  LET accepted == FactuurWeeklyRows(ff, n, cat)
                  IN  /\ accepted # {} => HasWeekly(factuur[c], n, cat)
                      /\ (accepted # {} /\ FactuurSum(ff, accepted) = 0) =>
                            factuur[c][n][cat] = 0
                      /\ KlokOnlyZero(kf, n, cat) => ~HasWeekly(kloklijst[c], n, cat)
                      /\ (accepted # {} /\ FactuurSum(ff, accepted) = 0
                             /\ KlokOnlyZero(kf, n, cat)) =>
                            /\ Cardinality(RowsOf(rows[c], n, cat)) = 1
                            /\ \A i \in RowsOf(rows[c], n, cat) :
                                  /\ rows[c][i]["Status"] = "ALLEEN IN FACTUUR"
                                  /\ rows[c][i]["Factuur uren"] = Float(0)
                                  /\ rows[c][i]["Kloklijst uren"] = <<>>
                                  /\ rows[c][i]["Verschil"] = <<>>

\* C14's case: the invoice holds "0" hours for Bob under "T200 Dag" and the
\* timesheet holds "0" in Bob's column "T200 Dag": the one weekly row is
\* ALLEEN IN FACTUUR with 0 invoice hours.
C14_Witness ==
    \E c \in DOMAIN pc :
        /\ RowsBuilt(c)
        /\ FactuurFile(c) = << FactuurRow("Bob", "T200 Dag", "2025-12-15", "0") >>
        /\ KlokFile(c) = << KlokRow("Bob", "2025-12-15", "", "0") >>
        /\ factuur[c] = (Str("bob") :> (Str("T200 Dag") :> 0))
        /\ kloklijst[c] = EmptyDict
        /\ Len(rows[c]) = 1
        /\ rows[c][1]["Status"] = "ALLEEN IN FACTUUR"
        /\ rows[c][1]["Factuur uren"] = Float(0)
        /\ counts[c].ok = 0

=============================================================================
